------------------------------ MODULE Spec2Model ------------------------------
(***************************************************************************)
(* German grammar checker (german-grammar-checker.py).                     *)
(*                                                                         *)
(* The script wraps a causal language model: correct_german_text builds a  *)
(* prompt around the sentence, lets the runtime generate, decodes the full *)
(* output and slices the correction out of it with                         *)
(*     generated_text.split("Korrigiert:")[1].strip()                      *)
(* The driver corrects six built-in examples and then loops on input().    *)
(*                                                                         *)
(* A Python str is modelled as the sequence of its characters, each a      *)
(* one-character string; a character outside ASCII is written "U+XXXX".    *)
(* The tokenizer and the model are external: their joint behaviour is the  *)
(* variable runtime, a deterministic generation function drawn in Init.    *)
(***************************************************************************)
EXTENDS Integers, Sequences, FiniteSets, TLC

VARIABLES
    runtime,     \* the loaded tokenizer and model (lines 9-14), shared by all calls
    fn_log,      \* harness: the calls of correct_german_text made so far
    pc,          \* driver: the statement of the script that runs next
    idx,         \* driver: enumerate's counter in batch_correct_german (line 53)
    sentence,    \* driver: the loop variable of batch_correct_german (line 53)
    user_input,  \* driver: the line read by input() (line 86)
    corrected,   \* driver: the value of `corrected` (lines 57 and 90)
    inputs,      \* driver: every line read from stdin so far, in order
    calls,       \* driver: every call of correct_german_text so far, in order
    out,         \* driver: stdout, one entry for each print() or input() prompt
    exc          \* driver: the exception that ended the process, "" for none

vars == << runtime, fn_log, pc, idx, sentence, user_input, corrected, inputs,
           calls, out, exc >>

driver_vars == << pc, idx, sentence, user_input, corrected, inputs, calls, out, exc >>

-----------------------------------------------------------------------------
(* Bounds of the model.                                                    *)

\* The interactive loop reads at most MaxInputs lines.
MaxInputs == 2

\* A stubbed decoded output is a concatenation of at most MaxPieces pieces.
MaxPieces == 3

\* The harness calls correct_german_text at most MaxCalls times.
MaxCalls == 3

-----------------------------------------------------------------------------
(* The string literals of the script.                                      *)

\* line 5: "Qwen/Qwen2.5-3B"
model_name ==
    << "Q", "w", "e", "n", "/", "Q", "w", "e", "n", "2", ".", "5", "-", "3", "B" >>

\* line 8: "Loading model and tokenizer..."
LoadingLine ==
    << "L", "o", "a", "d", "i", "n", "g", " ", "m", "o", "d", "e", "l", " ", "a", "n", "d",
       " ", "t", "o", "k", "e", "n", "i", "z", "e", "r", ".", ".", "." >>

\* lines 21-23, the template up to {text}: "Du bist ein Grammatik- und Rechtschreibhilfe-Tool f\xfcr Deutsch. \xdcberpr\xfcfe den folgenden deutschen Satz auf Fehler und gib die korrigierte Version zur\xfcck.\n    \nOriginal: "
PromptHead ==
    << "D", "u", " ", "b", "i", "s", "t", " ", "e", "i", "n", " ", "G", "r", "a", "m", "m",
       "a", "t", "i", "k", "-", " ", "u", "n", "d", " ", "R", "e", "c", "h", "t", "s", "c",
       "h", "r", "e", "i", "b", "h", "i", "l", "f", "e", "-", "T", "o", "o", "l", " ", "f",
       "U+00FC", "r", " ", "D", "e", "u", "t", "s", "c", "h", ".", " ", "U+00DC", "b", "e",
       "r", "p", "r", "U+00FC", "f", "e", " ", "d", "e", "n", " ", "f", "o", "l", "g", "e",
       "n", "d", "e", "n", " ", "d", "e", "u", "t", "s", "c", "h", "e", "n", " ", "S", "a",
       "t", "z", " ", "a", "u", "f", " ", "F", "e", "h", "l", "e", "r", " ", "u", "n", "d",
       " ", "g", "i", "b", " ", "d", "i", "e", " ", "k", "o", "r", "r", "i", "g", "i", "e",
       "r", "t", "e", " ", "V", "e", "r", "s", "i", "o", "n", " ", "z", "u", "r", "U+00FC",
       "c", "k", ".", "\n", " ", " ", " ", " ", "\n", "O", "r", "i", "g", "i", "n", "a", "l",
       ":", " " >>

\* lines 23-24, the template after {text}: "\nKorrigiert:"
PromptTail ==
    << "\n", "K", "o", "r", "r", "i", "g", "i", "e", "r", "t", ":" >>

\* line 44, the separator of split: "Korrigiert:"
Marker ==
    << "K", "o", "r", "r", "i", "g", "i", "e", "r", "t", ":" >>

\* line 46: "Error: Model did not produce a valid correction."
ErrorString ==
    << "E", "r", "r", "o", "r", ":", " ", "M", "o", "d", "e", "l", " ", "d", "i", "d", " ",
       "n", "o", "t", " ", "p", "r", "o", "d", "u", "c", "e", " ", "a", " ", "v", "a", "l",
       "i", "d", " ", "c", "o", "r", "r", "e", "c", "t", "i", "o", "n", "." >>

\* line 68: "Ich habe gestern ein Buch gekauft."
Sentence1 ==
    << "I", "c", "h", " ", "h", "a", "b", "e", " ", "g", "e", "s", "t", "e", "r", "n", " ",
       "e", "i", "n", " ", "B", "u", "c", "h", " ", "g", "e", "k", "a", "u", "f", "t", "." >>

\* line 69: "Ich habe gestern ein buch gekauft."
Sentence2 ==
    << "I", "c", "h", " ", "h", "a", "b", "e", " ", "g", "e", "s", "t", "e", "r", "n", " ",
       "e", "i", "n", " ", "b", "u", "c", "h", " ", "g", "e", "k", "a", "u", "f", "t", "." >>

\* line 70: "Die Kinder spielt im Garten."
Sentence3 ==
    << "D", "i", "e", " ", "K", "i", "n", "d", "e", "r", " ", "s", "p", "i", "e", "l", "t",
       " ", "i", "m", " ", "G", "a", "r", "t", "e", "n", "." >>

\* line 71: "Ich bin nach Berlin gefahren und habe mein Freund besucht."
Sentence4 ==
    << "I", "c", "h", " ", "b", "i", "n", " ", "n", "a", "c", "h", " ", "B", "e", "r", "l",
       "i", "n", " ", "g", "e", "f", "a", "h", "r", "e", "n", " ", "u", "n", "d", " ", "h",
       "a", "b", "e", " ", "m", "e", "i", "n", " ", "F", "r", "e", "u", "n", "d", " ", "b",
       "e", "s", "u", "c", "h", "t", "." >>

\* line 72: "Wir mussen heute nach Hause gehen."
Sentence5 ==
    << "W", "i", "r", " ", "m", "u", "s", "s", "e", "n", " ", "h", "e", "u", "t", "e", " ",
       "n", "a", "c", "h", " ", "H", "a", "u", "s", "e", " ", "g", "e", "h", "e", "n", "." >>

\* line 73: "Ich habe kein zeit f\xfcr das."
Sentence6 ==
    << "I", "c", "h", " ", "h", "a", "b", "e", " ", "k", "e", "i", "n", " ", "z", "e", "i",
       "t", " ", "f", "U+00FC", "r", " ", "d", "a", "s", "." >>

\* line 54: "\nExample "
ExamplePrefix ==
    << "\n", "E", "x", "a", "m", "p", "l", "e", " " >>

\* line 55: "Original: "
OriginalPrefix ==
    << "O", "r", "i", "g", "i", "n", "a", "l", ":", " " >>

\* lines 58 and 91: "Corrected: "
CorrectedPrefix ==
    << "C", "o", "r", "r", "e", "c", "t", "e", "d", ":", " " >>

\* line 62: "Changes were made \u2713"
ChangesLine ==
    << "C", "h", "a", "n", "g", "e", "s", " ", "w", "e", "r", "e", " ", "m", "a", "d", "e",
       " ", "U+2713" >>

\* line 64: "No changes needed \u2713"
NoChangesLine ==
    << "N", "o", " ", "c", "h", "a", "n", "g", "e", "s", " ", "n", "e", "e", "d", "e", "d",
       " ", "U+2713" >>

\* line 77: "Model: "
ModelPrefix ==
    << "M", "o", "d", "e", "l", ":", " " >>

\* line 78: "Starting German grammar correction examples..."
BannerLine ==
    << "S", "t", "a", "r", "t", "i", "n", "g", " ", "G", "e", "r", "m", "a", "n", " ", "g",
       "r", "a", "m", "m", "a", "r", " ", "c", "o", "r", "r", "e", "c", "t", "i", "o", "n",
       " ", "e", "x", "a", "m", "p", "l", "e", "s", ".", ".", "." >>

\* line 82: "\n\n--- Interactive Mode ---"
ModeLine ==
    << "\n", "\n", "-", "-", "-", " ", "I", "n", "t", "e", "r", "a", "c", "t", "i", "v", "e",
       " ", "M", "o", "d", "e", " ", "-", "-", "-" >>

\* line 83: "Enter German sentences for correction (type 'exit' to quit):"
HelpLine ==
    << "E", "n", "t", "e", "r", " ", "G", "e", "r", "m", "a", "n", " ", "s", "e", "n", "t",
       "e", "n", "c", "e", "s", " ", "f", "o", "r", " ", "c", "o", "r", "r", "e", "c", "t",
       "i", "o", "n", " ", "(", "t", "y", "p", "e", " ", "'", "e", "x", "i", "t", "'", " ",
       "t", "o", " ", "q", "u", "i", "t", ")", ":" >>

\* line 86: "\nYour German text: "
InputPrompt ==
    << "\n", "Y", "o", "u", "r", " ", "G", "e", "r", "m", "a", "n", " ", "t", "e", "x", "t",
       ":", " " >>

\* line 87: "exit"
ExitWord ==
    << "e", "x", "i", "t" >>

\* line 67-74, example_sentences
example_sentences ==
    << Sentence1, Sentence2, Sentence3, Sentence4, Sentence5, Sentence6 >>

\* line 16, the default of max_new_tokens
DefaultMaxNewTokens == 100

-----------------------------------------------------------------------------
(* The str methods the script uses.                                        *)

Min(S) == CHOOSE x \in S : \A y \in S : x <= y
Max(S) == CHOOSE x \in S : \A y \in S : x >= y

\* s[i:] of Python, for a 1-based i.
From(s, i) == SubSeq(s, i, Len(s))

\* sep occurs in s at position j.
OccursAt(s, sep, j) ==
    /\ j >= 1
    /\ j + Len(sep) - 1 <= Len(s)
    /\ s[j] = sep[1]
    /\ SubSeq(s, j, j + Len(sep) - 1) = sep

\* s.find(sep): the position of the leftmost occurrence, 0 for none.
Find(s, sep) ==
    LET hits == { j \in 1..Len(s) : OccursAt(s, sep, j) }
    IN  IF hits = {} THEN 0 ELSE Min(hits)

\* s.split(sep), sep not empty: the pieces between the non-overlapping
\* occurrences of sep, scanned from the left.
RECURSIVE Split(_, _)
Split(s, sep) ==
    LET j == Find(s, sep)
    IN  IF j = 0
        THEN << s >>
        ELSE << SubSeq(s, 1, j - 1) >> \o Split(From(s, j + Len(sep)), sep)

\* The characters str.strip() removes.
Whitespace == { " ", "\t", "\n", "\r", "\f", "U+000B", "U+00A0" }

\* s.strip(): s without its leading and trailing whitespace.
Strip(s) ==
    LET keep == { i \in 1..Len(s) : s[i] \notin Whitespace }
    IN  IF keep = {} THEN << >> ELSE SubSeq(s, Min(keep), Max(keep))

UpperLetters ==
    << "A", "B", "C", "D", "E", "F", "G", "H", "I", "J", "K", "L", "M", "N", "O", "P",
       "Q", "R", "S", "T", "U", "V", "W", "X", "Y", "Z", "U+00C4", "U+00D6", "U+00DC" >>
LowerLetters ==
    << "a", "b", "c", "d", "e", "f", "g", "h", "i", "j", "k", "l", "m", "n", "o", "p",
       "q", "r", "s", "t", "u", "v", "w", "x", "y", "z", "U+00E4", "U+00F6", "U+00FC" >>

LowerChar(c) ==
    IF \E i \in 1..Len(UpperLetters) : UpperLetters[i] = c
    THEN LowerLetters[CHOOSE i \in 1..Len(UpperLetters) : UpperLetters[i] = c]
    ELSE c

\* s.lower()
Lower(s) == [ i \in 1..Len(s) |-> LowerChar(s[i]) ]

\* str(idx) for the indices enumerate yields here.
Digits == << "0", "1", "2", "3", "4", "5", "6", "7", "8", "9" >>
RECURSIVE IntToStr(_)
IntToStr(n) ==
    IF n < 10 THEN << Digits[n + 1] >> ELSE IntToStr(n \div 10) \o << Digits[(n % 10) + 1] >>

-----------------------------------------------------------------------------
(* The generation runtime: tokenizer(prompt), model.generate and           *)
(* tokenizer.decode (lines 27-40). It is external to the script, so the    *)
(* model enumerates behaviours, each a deterministic function of the       *)
(* prompt and max_new_tokens:                                              *)
(*   "echo"   the model repeats the sentence of the prompt;                *)
(*   "reply"  the model continues every prompt with the text reply;        *)
(*   "stub"   a test double whose decoded output is reply for any prompt.  *)
(* One generated token is taken to decode to one character.                *)

\* The first n elements of s.
Take(s, n) == SubSeq(s, 1, IF n < Len(s) THEN n ELSE Len(s))

\* The sentence embedded in a prompt built by line 21-24.
PromptSentence(prompt) ==
    SubSeq(prompt, Len(PromptHead) + 1, Len(prompt) - Len(PromptTail))

\* The text the model would generate after the prompt, before the cap.
Continuation(rt, prompt) ==
    IF rt.kind = "echo" THEN << " " >> \o PromptSentence(prompt) ELSE rt.reply

\* tokenizer.decode(model.generate(tokenizer(prompt), max_new_tokens)[0]):
\* the prompt followed by at most max_new_tokens generated tokens.
Generate(rt, prompt, max_new_tokens) ==
    IF rt.kind = "stub"
    THEN rt.reply
    ELSE prompt \o Take(Continuation(rt, prompt), max_new_tokens)

\* Continuations of the "reply" behaviours.
Replies ==
    { << >>,
      << " " >> \o Sentence1,
      << " ", " ", "a", " ", " ", "b", " ", "\n" >>,
      << " ", "a", "\n", "\n" >> \o OriginalPrefix \o << "b", "\n" >> \o Marker \o << " ", "c" >> }

LmRuntimes ==
    { [kind |-> "echo", reply |-> << >>] } \cup { [kind |-> "reply", reply |-> r] : r \in Replies }

\* The pieces stubbed decoded outputs are concatenated from.
Pieces ==
    { Marker, << " " >>, << "a" >>, << ":" >>,
      << "K", "o", "r", "r", "i", "g", "i", "e", "r", "t" >> }

RECURSIVE PieceStrings(_)
PieceStrings(n) ==
    IF n = 0
    THEN { << >> }
    ELSE LET shorter == PieceStrings(n - 1)
         IN  shorter \cup { s \o p : s \in shorter, p \in Pieces }

StubRuntimes == { [kind |-> "stub", reply |-> d] : d \in PieceStrings(MaxPieces) }

-----------------------------------------------------------------------------
(* correct_german_text (lines 16-48).                                      *)

\* list[i] of Python for i >= 0: IndexError when i is out of range.
GetItem(list, i) ==
    IF i + 1 <= Len(list)
    THEN [raised |-> "", val |-> list[i + 1]]
    ELSE [raised |-> "IndexError", val |-> << >>]

\* line 21-24
BuildPrompt(text) == PromptHead \o text \o PromptTail

\* line 44 without the handler of line 45: the exception propagates.
ExtractNoHandler(generated_text) ==
    LET item == GetItem(Split(generated_text, Marker), 1)
    IN  IF item.raised # ""
        THEN [raised |-> item.raised, val |-> << >>]
        ELSE [raised |-> "", val |-> Strip(item.val)]

\* line 44 with index 0 in place of 1.
ExtractIndexZero(generated_text) ==
    LET item == GetItem(Split(generated_text, Marker), 0)
    IN  IF item.raised = "IndexError"
        THEN [raised |-> "", val |-> ErrorString]
        ELSE [raised |-> "", val |-> Strip(item.val)]

\* lines 43-46: the try statement
Extract(generated_text) ==
    LET item == GetItem(Split(generated_text, Marker), 1)
    IN  IF item.raised = "IndexError"
        THEN [raised |-> "", val |-> ErrorString]
        ELSE [raised |-> "", val |-> Strip(item.val)]

\* lines 16-48. raised names the exception that leaves the function ("" for
\* a normal return of val); generated_text is kept for the logs.
CorrectGermanText(rt, text, max_new_tokens) ==
    LET prompt == BuildPrompt(text)
        generated_text == Generate(rt, prompt, max_new_tokens)
        r == Extract(generated_text)
    IN  [text |-> text, max_new_tokens |-> max_new_tokens,
         generated_text |-> generated_text, raised |-> r.raised, ret |-> r.val]

-----------------------------------------------------------------------------
(* A harness that calls correct_german_text with arbitrary arguments.      *)

FnSentences == { << "a" >>, Marker \o << " ", "a" >> }

FnMaxNewTokens == { 4, DefaultMaxNewTokens }

\* The state before the script's first statement (line 77): the module body
\* has printed line 8 and loaded the model.
DriverInit ==
    /\ pc = "main"
    /\ idx = 0
    /\ sentence = << >>
    /\ user_input = << >>
    /\ corrected = << >>
    /\ inputs = << >>
    /\ calls = << >>
    /\ out = << LoadingLine >>
    /\ exc = ""

InitFn ==
    /\ runtime \in LmRuntimes \cup StubRuntimes
    /\ fn_log = << >>
    /\ DriverInit

\* A call of the function on a runtime whose use changes the runtime.
CallFnStateful(text, max_new_tokens) ==
    /\ Len(fn_log) < MaxCalls
    /\ fn_log' = Append(fn_log, CorrectGermanText(runtime, text, max_new_tokens))
    /\ runtime' = [kind |-> "reply", reply |-> Take(fn_log'[Len(fn_log')].ret, 2)]
    /\ UNCHANGED driver_vars

\* correct_german_text(text, max_new_tokens): the function reads the globals
\* tokenizer and model and assigns neither.
CallFn(text, max_new_tokens) ==
    /\ Len(fn_log) < MaxCalls
    /\ fn_log' = Append(fn_log, CorrectGermanText(runtime, text, max_new_tokens))
    /\ UNCHANGED << runtime, driver_vars >>

NextFn == \E text \in FnSentences, max_new_tokens \in FnMaxNewTokens : CallFn(text, max_new_tokens)

SpecFn == InitFn /\ [][NextFn]_vars

-----------------------------------------------------------------------------
(* The driver: lines 76-91 and batch_correct_german (lines 51-64), one     *)
(* action for each statement.                                              *)

\* The lines a user may type.
UserLines ==
    { ExitWord,
      << "E", "X", "I", "T" >>,
      << "E", "x", "i", "t" >>,
      << " " >> \o ExitWord,
      ExitWord \o << " " >>,
      << >>,
      << "a" >>,
      Sentence1 }

DriverRuntimes ==
    LmRuntimes \cup { [kind |-> "stub", reply |-> d] : d \in PieceStrings(1) }

Init ==
    /\ runtime \in DriverRuntimes
    /\ fn_log = << >>
    /\ DriverInit

\* line 77
PrintModel ==
    /\ pc = "main"
    /\ out' = Append(out, ModelPrefix \o model_name)
    /\ pc' = "banner"
    /\ UNCHANGED << runtime, fn_log, idx, sentence, user_input, corrected, inputs, calls, exc >>

\* line 78, and the call of line 79
PrintBanner ==
    /\ pc = "banner"
    /\ out' = Append(out, BannerLine)
    /\ pc' = "for"
    /\ UNCHANGED << runtime, fn_log, idx, sentence, user_input, corrected, inputs, calls, exc >>

\* lines 53-54 with enumerate(sentences): the index starts at 0.
PrintExampleHeaderFromZero ==
    /\ pc = "for"
    /\ idx < Len(example_sentences)
    /\ idx' = idx + 1
    /\ sentence' = example_sentences[idx + 1]
    /\ out' = Append(out, ExamplePrefix \o IntToStr(idx) \o << ":" >>)
    /\ pc' = "original"
    /\ UNCHANGED << runtime, fn_log, user_input, corrected, inputs, calls, exc >>

\* lines 53-54: the next sentence of enumerate(sentences, 1) and its header.
\* idx counts the sentences taken, so the index printed is idx + 1.
PrintExampleHeader ==
    /\ pc = "for"
    /\ idx < Len(example_sentences)
    /\ idx' = idx + 1
    /\ sentence' = example_sentences[idx + 1]
    /\ out' = Append(out, ExamplePrefix \o IntToStr(idx + 1) \o << ":" >>)
    /\ pc' = "original"
    /\ UNCHANGED << runtime, fn_log, user_input, corrected, inputs, calls, exc >>

\* line 55
PrintOriginal ==
    /\ pc = "original"
    /\ out' = Append(out, OriginalPrefix \o sentence)
    /\ pc' = "batch_call"
    /\ UNCHANGED << runtime, fn_log, idx, sentence, user_input, corrected, inputs, calls, exc >>

\* line 57: an exception of the call is not handled and ends the process.
BatchCall ==
    /\ pc = "batch_call"
    /\ LET r == CorrectGermanText(runtime, sentence, DefaultMaxNewTokens)
       IN  /\ calls' = Append(calls, r)
           /\ IF r.raised # ""
              THEN pc' = "crashed" /\ exc' = r.raised /\ UNCHANGED corrected
              ELSE pc' = "batch_print" /\ corrected' = r.ret /\ UNCHANGED exc
    /\ UNCHANGED << runtime, fn_log, idx, sentence, user_input, inputs, out >>

\* line 58
PrintBatchCorrected ==
    /\ pc = "batch_print"
    /\ out' = Append(out, CorrectedPrefix \o corrected)
    /\ pc' = "verdict"
    /\ UNCHANGED << runtime, fn_log, idx, sentence, user_input, corrected, inputs, calls, exc >>

\* lines 61-64 with the comparison inverted.
PrintVerdictInverted ==
    /\ pc = "verdict"
    /\ out' = Append(out, IF sentence = corrected THEN ChangesLine ELSE NoChangesLine)
    /\ pc' = "for"
    /\ UNCHANGED << runtime, fn_log, idx, sentence, user_input, corrected, inputs, calls, exc >>

\* lines 61-64
PrintVerdict ==
    /\ pc = "verdict"
    /\ out' = Append(out, IF sentence # corrected THEN ChangesLine ELSE NoChangesLine)
    /\ pc' = "for"
    /\ UNCHANGED << runtime, fn_log, idx, sentence, user_input, corrected, inputs, calls, exc >>

\* line 82, reached when the loop of line 53 is exhausted
PrintModeLine ==
    /\ pc = "for"
    /\ idx = Len(example_sentences)
    /\ out' = Append(out, ModeLine)
    /\ pc' = "help"
    /\ UNCHANGED << runtime, fn_log, idx, sentence, user_input, corrected, inputs, calls, exc >>

\* line 83
PrintHelp ==
    /\ pc = "help"
    /\ out' = Append(out, HelpLine)
    /\ pc' = "input"
    /\ UNCHANGED << runtime, fn_log, idx, sentence, user_input, corrected, inputs, calls, exc >>

\* line 86: input() writes the prompt and returns the line read.
ReadInput ==
    /\ pc = "input"
    /\ Len(inputs) < MaxInputs
    /\ \E line \in UserLines :
          /\ user_input' = line
          /\ inputs' = Append(inputs, line)
    /\ out' = Append(out, InputPrompt)
    /\ pc' = "if"
    /\ UNCHANGED << runtime, fn_log, idx, sentence, corrected, calls, exc >>

\* line 86: input() writes the prompt and raises EOFError at the end of stdin.
InputEOF ==
    /\ pc = "input"
    /\ out' = Append(out, InputPrompt)
    /\ exc' = "EOFError"
    /\ pc' = "crashed"
    /\ UNCHANGED << runtime, fn_log, idx, sentence, user_input, corrected, inputs, calls >>

\* lines 87-88 comparing without lower().
CheckExitCaseSensitive ==
    /\ pc = "if"
    /\ pc' = IF user_input = ExitWord THEN "done" ELSE "call"
    /\ UNCHANGED << runtime, fn_log, idx, sentence, user_input, corrected, inputs, calls, out, exc >>

\* lines 87-88 comparing the stripped line.
CheckExitStripped ==
    /\ pc = "if"
    /\ pc' = IF Lower(Strip(user_input)) = ExitWord THEN "done" ELSE "call"
    /\ UNCHANGED << runtime, fn_log, idx, sentence, user_input, corrected, inputs, calls, out, exc >>

\* lines 87-88: break leaves the loop and the script ends.
CheckExit ==
    /\ pc = "if"
    /\ pc' = IF Lower(user_input) = ExitWord THEN "done" ELSE "call"
    /\ UNCHANGED << runtime, fn_log, idx, sentence, user_input, corrected, inputs, calls, out, exc >>

\* line 90
InteractiveCall ==
    /\ pc = "call"
    /\ LET r == CorrectGermanText(runtime, user_input, DefaultMaxNewTokens)
       IN  /\ calls' = Append(calls, r)
           /\ IF r.raised # ""
              THEN pc' = "crashed" /\ exc' = r.raised /\ UNCHANGED corrected
              ELSE pc' = "print" /\ corrected' = r.ret /\ UNCHANGED exc
    /\ UNCHANGED << runtime, fn_log, idx, sentence, user_input, inputs, out >>

\* line 91
PrintInteractiveCorrected ==
    /\ pc = "print"
    /\ out' = Append(out, CorrectedPrefix \o corrected)
    /\ pc' = "input"
    /\ UNCHANGED << runtime, fn_log, idx, sentence, user_input, corrected, inputs, calls, exc >>

\* The statements of the script that run without the runtime.
ScriptStep ==
    \/ PrintModel
    \/ PrintBanner
    \/ PrintExampleHeader
    \/ PrintOriginal
    \/ PrintBatchCorrected
    \/ PrintVerdict
    \/ PrintModeLine
    \/ PrintHelp
    \/ CheckExit
    \/ PrintInteractiveCorrected

Next == ScriptStep \/ BatchCall \/ InteractiveCall \/ ReadInput \/ InputEOF

Spec == Init /\ [][Next]_vars

\* The interpreter runs the next statement of the script whenever there is
\* one. Nothing is assumed of the user, who may never type a line, nor of
\* the runtime, whose generate call the script only waits for.
FairSpec == Spec /\ WF_vars(ScriptStep)

-----------------------------------------------------------------------------
(* Properties of correct_german_text, checked under SpecFn.                *)

\* The marker occurs somewhere in s.
HasMarker(s) == \E j \in 1..Len(s) : OccursAt(s, Marker, j)

\* The text of s after the first occurrence of the marker.
AfterFirstMarker(s) ==
    LET first == CHOOSE j \in 1..Len(s) :
                    /\ OccursAt(s, Marker, j)
                    /\ \A k \in 1..(j - 1) : ~OccursAt(s, Marker, k)
    IN  From(s, first + Len(Marker))

\* C1: for a stubbed decoded output "<prefix>Korrigiert: X" (the prefix being
\* the text before the first marker), correct_german_text returns X with its
\* surrounding whitespace removed and nothing else changed.
C1_StubCorrection ==
    \A k \in 1..Len(fn_log) :
        LET c == fn_log[k]
        IN  (runtime.kind = "stub" /\ HasMarker(c.generated_text))
                => /\ c.raised = ""
                   /\ c.ret = Strip(AfterFirstMarker(c.generated_text))

\* C2: when the decoded output holds no "Korrigiert:", correct_german_text
\* returns the fixed error string and raises nothing.
C2_MissingMarker ==
    \A k \in 1..Len(fn_log) :
        LET c == fn_log[k]
        IN  ~HasMarker(c.generated_text) => (c.raised = "" /\ c.ret = ErrorString)

\* C2 witness: a call whose decoded output is not empty, holds "Korrigiert"
\* but no "Korrigiert:", and returned the error string.
C2_Witness ==
    \E k \in 1..Len(fn_log) :
        /\ ~HasMarker(fn_log[k].generated_text)
        /\ Len(fn_log[k].generated_text) > Len(Marker)
        /\ fn_log[k].ret = ErrorString

\* C3: when the decoded output holds the marker one or more times, the
\* result is everything after its first occurrence, later markers and the
\* text after them included, stripped.
C3_AfterFirstMarker ==
    \A k \in 1..Len(fn_log) :
        LET c == fn_log[k]
        IN  HasMarker(c.generated_text)
                => c.ret = Strip(AfterFirstMarker(c.generated_text))

\* C4: when the decoded output is the prompt built for the sentence followed
\* by the model's continuation, the result is the continuation stripped or
\* the error string, never text of the sentence or of the prompt.
C4_OnlyModelText ==
    \A k \in 1..Len(fn_log) :
        LET c == fn_log[k]
            prompt == BuildPrompt(c.text)
        IN  (runtime.kind # "stub" /\ SubSeq(c.generated_text, 1, Len(prompt)) = prompt)
                => c.ret \in { Strip(From(c.generated_text, Len(prompt) + 1)), ErrorString }

-----------------------------------------------------------------------------
(* Properties of the driver, checked under Spec and FairSpec.              *)
(*                                                                         *)
(* stdout is laid out as: 1 the loading line, 2 the model name, 3 the      *)
(* banner; for example i the header at 4i, "Original:" at 4i+1,            *)
(* "Corrected:" at 4i+2 and the verdict at 4i+3; 28 and 29 the two lines   *)
(* that open the interactive mode; for the k-th line read, the prompt at   *)
(* 28+2k and "Corrected:" at 29+2k.                                        *)

NumExamples == Len(example_sentences)

\* The position of the last line printed before the interactive loop.
LastBatchLine == 4 * NumExamples + 5

\* Every spelling of "exit" that differs from it in letter case only.
ExitSpellings ==
    { << e, x, i, t >> : e \in { "e", "E" }, x \in { "x", "X" },
                         i \in { "i", "I" }, t \in { "t", "T" } }

Verdicts == { ChangesLine, NoChangesLine }

\* The indices the example headers show.
ShownIndex == << "1", "2", "3", "4", "5", "6" >>

\* Where the "Corrected:" line of the k-th call of the Corrector belongs.
CorrectedLine(k) ==
    IF k <= NumExamples THEN 4 * k + 2 ELSE LastBatchLine + 2 * (k - NumExamples)

\* C5: a line equal to "exit" in any letter case is the last line read; the
\* script then only tests it and ends, the Corrector is called neither for
\* it nor ever after, and the script does end.
C5_ExitTerminates ==
    /\ [](\A k \in 1..Len(inputs) :
             inputs[k] \in ExitSpellings
                 => /\ k = Len(inputs)
                    /\ pc \in { "if", "done" }
                    /\ Len(calls) = NumExamples + (k - 1)
                    /\ Len(out) = LastBatchLine + 2 * k - 1)
    /\ [][pc # "done"]_vars
    /\ ((pc = "if" /\ user_input \in ExitSpellings) ~> (pc = "done"))

\* C5 witness: the script has ended on "EXIT", read after a line it corrected.
C5_Witness ==
    /\ pc = "done"
    /\ Len(inputs) = 2
    /\ inputs[2] = << "E", "X", "I", "T" >>
    /\ Len(calls) = NumExamples + 1

\* C6: each example gets exactly one verdict line, "Changes were made" if
\* and only if the Corrector's result differs from the sentence (the error
\* string included), "No changes needed" if and only if it equals it; no
\* verdict line is printed anywhere else.
C6_Verdict ==
    /\ \A i \in 1..NumExamples :
          Len(out) >= 4 * i + 3
              => /\ out[4 * i + 3] \in Verdicts
                 /\ out[4 * i + 3] = ChangesLine <=> calls[i].ret # example_sentences[i]
                 /\ out[4 * i + 3] = NoChangesLine <=> calls[i].ret = example_sentences[i]
                 /\ Cardinality({ p \in (4 * i)..(4 * i + 3) : out[p] \in Verdicts }) = 1
    /\ \A p \in 1..Len(out) :
          out[p] \in Verdicts => \E i \in 1..NumExamples : p = 4 * i + 3

\* C6 witness: the batch is over with both verdicts printed.
C6_Witness ==
    /\ Len(out) >= LastBatchLine
    /\ \E i, j \in 1..NumExamples :
          /\ out[4 * i + 3] = ChangesLine
          /\ out[4 * j + 3] = NoChangesLine

\* C7: the model name, the banner, then the six examples in list order with
\* indices 1 to 6, each as header, "Original:", call, "Corrected:", verdict,
\* complete before the next begins; the first prompt comes after the verdict
\* of example 6.
C7_Order ==
    /\ Len(out) >= 2 => out[2] = ModelPrefix \o model_name
    /\ Len(out) >= 3 => out[3] = BannerLine
    /\ NumExamples = 6
    /\ \A i \in 1..NumExamples :
          /\ Len(out) >= 4 * i => out[4 * i] = ExamplePrefix \o << ShownIndex[i], ":" >>
          /\ Len(out) >= 4 * i + 1 => out[4 * i + 1] = OriginalPrefix \o example_sentences[i]
          /\ Len(calls) >= i => (Len(out) >= 4 * i + 1 /\ calls[i].text = example_sentences[i])
          /\ Len(out) >= 4 * i + 2
                => (Len(calls) >= i /\ out[4 * i + 2] = CorrectedPrefix \o calls[i].ret)
          /\ Len(out) >= 4 * i + 3 => out[4 * i + 3] \in Verdicts
          /\ Len(out) <= 4 * i + 3 => Len(calls) <= i
    /\ \A p \in 1..Len(out) : out[p] = InputPrompt => p > LastBatchLine
    /\ Len(inputs) > 0 => Len(out) > LastBatchLine

\* C7 witness: the first prompt has been issued and a line read.
C7_Witness ==
    /\ pc = "if"
    /\ Len(inputs) = 1
    /\ Len(out) = LastBatchLine + 1
    /\ out[LastBatchLine + 1] = InputPrompt

\* C8: a decoded output without the marker never ends the driver: every call
\* returns, the error string is printed after "Corrected:" like any result,
\* and the driver goes on to the verdict and the next example, or to the
\* next prompt; the process never dies of the IndexError of the extraction.
C8_NeverFatal ==
    /\ [](/\ exc # "IndexError"
          /\ pc = "crashed" => exc = "EOFError"
          /\ \A k \in 1..Len(calls) :
                /\ calls[k].raised = ""
                /\ ~HasMarker(calls[k].generated_text)
                      => /\ calls[k].ret = ErrorString
                         /\ Len(out) >= CorrectedLine(k)
                               => out[CorrectedLine(k)] = CorrectedPrefix \o ErrorString)
    /\ [][pc = "batch_call" => pc' = "batch_print"]_vars
    /\ [][pc = "batch_print" => pc' = "verdict"]_vars
    /\ [][pc = "verdict" => pc' = "for"]_vars
    /\ [][pc = "call" => pc' = "print"]_vars
    /\ [][pc = "print" => pc' = "input"]_vars

\* C8 witness: the marker was missing for every example and for a line typed
\* by the user, and the driver is back at the prompt.
C8_Witness ==
    /\ pc = "input"
    /\ Len(calls) = NumExamples + 1
    /\ \A k \in 1..Len(calls) : ~HasMarker(calls[k].generated_text)
    /\ out[Len(out)] = CorrectedPrefix \o ErrorString

\* C10: every line read that is not "exit" in some letter case, the empty
\* line and " exit" and "exit " included, gets exactly one call of the
\* Corrector on that very line and exactly one "Corrected:" line before the
\* next prompt; the loop is left on the sentinel only (or when stdin ends);
\* and once the user enters "exit" the script ends.
C10_Loop ==
    /\ [](/\ Len(calls) <= NumExamples + Len(inputs)
          /\ \A k \in 1..Len(inputs) :
                /\ out[LastBatchLine + 2 * k - 1] = InputPrompt
                /\ (inputs[k] \notin ExitSpellings /\ (k < Len(inputs) \/ pc \in { "input", "crashed" }))
                      => /\ Len(calls) >= NumExamples + k
                         /\ calls[NumExamples + k].text = inputs[k]
                         /\ out[LastBatchLine + 2 * k] = CorrectedPrefix \o calls[NumExamples + k].ret
          /\ pc = "input"
                => /\ Len(calls) = NumExamples + Len(inputs)
                   /\ Len(out) = LastBatchLine + 2 * Len(inputs)
          /\ pc = "done" => (Len(inputs) > 0 /\ inputs[Len(inputs)] \in ExitSpellings)
          /\ pc = "crashed" => exc = "EOFError")
    /\ ((pc = "if" /\ user_input \in ExitSpellings) ~> (pc = "done"))

\* C10 witness: " exit" and the empty line were both corrected and the
\* script is at its third prompt.
C10_Witness ==
    /\ pc = "input"
    /\ Len(inputs) = 2
    /\ inputs[1] = << " ", "e", "x", "i", "t" >>
    /\ inputs[2] = << >>
    /\ Len(calls) = NumExamples + 2

=============================================================================
